---- MODULE Spec2Model ----
\* Model of backend/src/routes/progresoRoutes.js: the finalize handler
\* (POST /finalizar) with its classifier-call-with-fallback protocol, the
\* streak computation and the progress endpoint (GET /:userId).
EXTENDS Integers, Sequences, FiniteSets, TLC

VARIABLES
    fin,          \* per request of POST /finalizar: the handler's locals and position
    resultados,   \* the Resultado collection: the records saved so far
    acs,          \* input of the Validate step when checked on its own
    aceptados,    \* its output
    pcV,          \* position of the Validate check
    hostTZ,       \* the time zone of the host process
    dates,        \* input of computeStreak when checked on its own
    rachaDias,    \* its output
    pcS,          \* position of the streak check
    todosResultados, \* what Resultado.find returns for the learner of GET /:userId
    now,          \* the clock read by GET /:userId
    prog          \* the handler's locals, position and response

varsVal == <<acs, aceptados, pcV>>
varsStreak == <<hostTZ, dates, rachaDias, pcS>>
varsProg == <<todosResultados, now, prog>>
vars ==
    <<fin, resultados, acs, aceptados, pcV, hostTZ, dates, rachaDias, pcS,
      todosResultados, now, prog>>

\* ---------------------------------------------------------------- bounds
MaxMsgs == 2
MaxAcsFin == 4
MaxAcs == 5
NumDays == 5
MaxDates == 3
MaxRecs == 3
MaxRecsErr == 3

\* ---------------------------------------------------------------- JS values
\* A JS string is a sequence of tokens; " " is a whitespace token.
\* A JS value is a record [t, v]: its type tag and its tokens / elements.
WS == " "
JUndef == [t |-> "undefined", v |-> <<>>]
JNull == [t |-> "null", v |-> <<>>]
JNum(n) == [t |-> "number", v |-> <<n>>]
JStr(s) == [t |-> "string", v |-> s]
JArr(a) == [t |-> "array", v |-> a]
S(tok) == <<tok>>

RECURSIVE TrimStart(_)
TrimStart(s) == IF s # <<>> /\ Head(s) = WS THEN TrimStart(Tail(s)) ELSE s

RECURSIVE TrimEnd(_)
TrimEnd(s) ==
    IF s # <<>> /\ s[Len(s)] = WS THEN TrimEnd(SubSeq(s, 1, Len(s) - 1)) ELSE s

\* String.prototype.trim
Trim(s) == TrimEnd(TrimStart(s))

\* Array.prototype.slice(0, n)
Slice0(s, n) == SubSeq(s, 1, IF Len(s) < n THEN Len(s) ELSE n)

Range(s) == {s[i] : i \in DOMAIN s}

SeqsUpTo(X, n) == UNION {[1..k -> X] : k \in 0..n}

\* ---------------------------------------------------------------- vocabulary
\* AC_MAP: the closed vocabulary, id -> {name}
AC_MAP ==
    [id \in {S("AC1"), S("AC2"), S("AC3"), S("AC4")} |->
        [name |-> <<"name", " ", "of", " ">> \o id]]

\* Object.keys(AC_MAP)
ALLOWED_AC_IDS == <<S("AC1"), S("AC2"), S("AC3"), S("AC4")>>

AC_UNK == S("AC_UNK")
MaxTags == 3

\* ---------------------------------------------------------------- classifier
\* What callClassifier resolves to (r?.data?.message?.content): a value that is
\* not a string, or a string of one of these shapes:
\*   blank      only whitespace
\*   prose      text without any { ... } span ("no json here")
\*   object     exactly one JSON object
\*   fenced     a JSON object wrapped in ``` fences
\*   embedded   a JSON object with text before or after it
\*   malformed  a { ... } span that JSON.parse rejects
NoObj == [none |-> TRUE]

EntriesFin == {JStr(S("AC1")), JStr(<<WS, "AC2", WS>>), JStr(S("BOGUS")), JNum(7)}

TextosFin == {JNum(7), JStr(<<WS>>), JStr(<<WS, "texto", WS>>)}

PayloadsFin ==
    [analisis : TextosFin,
     consejo : {JUndef, JStr(S("consejo"))},
     acs : {JUndef} \cup {JArr(a) : a \in SeqsUpTo(EntriesFin, MaxAcsFin)}]

ContentsOf(payloads) ==
    {[typ |-> "undefined", shape |-> "none", obj |-> NoObj]}
    \cup {[typ |-> "string", shape |-> sh, obj |-> NoObj] :
            sh \in {"blank", "prose", "malformed"}}
    \cup {[typ |-> "string", shape |-> sh, obj |-> p] :
            sh \in {"object", "fenced", "embedded"}, p \in payloads}

ContentsFin == ContentsOf(PayloadsFin)

\* Errors a classifier call rejects with (axios): message and code
Errors ==
    {[message |-> <<"timeout", WS, "of", WS, "240000ms", WS, "exceeded">>,
      code |-> "ECONNABORTED"],
     [message |-> <<"Request", WS, "aborted">>, code |-> "ECONNABORTED"],
     [message |-> <<"Socket", WS, "Timeout">>, code |-> "ERR_SOCKET"],
     [message |-> <<"connect", WS, "ECONNREFUSED">>, code |-> "ECONNREFUSED"]}

\* the Error thrown by the handler itself when both extractions fail
ErrorNoJson ==
    [message |-> <<"Clasificador", WS, "devolvio", WS, "contenido", WS, "no-JSON">>,
     code |-> "none"]

NoError == [message |-> <<>>, code |-> "no-error"]

\* the ``` fences are removed: what is left is the object text
StripFences(text) ==
    IF text.shape = "fenced" THEN [text EXCEPT !.shape = "object"] ELSE text

\* cleaned.startsWith("{") && cleaned.endsWith("}")
StartsEndsBraces(cleaned) == cleaned.shape \in {"object", "malformed"}

\* cleaned.match(/\{[\s\S]*\}/)
MatchBraces(cleaned) == cleaned.shape \in {"object", "embedded", "malformed"}

\* JSON.parse succeeds on the text between the braces
JsonParses(cleaned) == cleaned.shape \in {"object", "embedded"}

NULL == JNull

extractJsonObject(text) ==
    IF text.typ # "string" THEN NULL
    ELSE IF text.shape = "blank" THEN NULL
    ELSE LET cleaned == StripFences(text)
         IN IF StartsEndsBraces(cleaned) /\ JsonParses(cleaned) THEN cleaned.obj
            ELSE IF ~MatchBraces(cleaned) THEN NULL
            ELSE IF JsonParses(cleaned) THEN cleaned.obj
            ELSE NULL

\* typeof x === "string" && x.trim() ? x.trim() : null
TextoIA(x) ==
    IF x.t = "string" /\ Trim(x.v) # <<>> THEN JStr(Trim(x.v)) ELSE JNull

IsString(x) == x.t = "string"
TrimId(x) == Trim(x.v)
IsAllowed(id) == id \in Range(ALLOWED_AC_IDS)

\* .filter((id) => typeof id === "string")
RECURSIVE FilterStrings(_)
FilterStrings(a) ==
    IF a = <<>> THEN <<>>
    ELSE (IF IsString(Head(a)) THEN <<Head(a)>> ELSE <<>>) \o FilterStrings(Tail(a))

\* .map((id) => id.trim())
RECURSIVE MapTrim(_)
MapTrim(a) == IF a = <<>> THEN <<>> ELSE <<TrimId(Head(a))>> \o MapTrim(Tail(a))

\* .filter((id) => ALLOWED_AC_IDS.includes(id))
RECURSIVE FilterAllowed(_)
FilterAllowed(a) ==
    IF a = <<>> THEN <<>>
    ELSE (IF IsAllowed(Head(a)) THEN <<Head(a)>> ELSE <<>>) \o FilterAllowed(Tail(a))

\* slip: the cap is applied before the filters
acsFiltrados_capFirst(arr) ==
    FilterAllowed(MapTrim(FilterStrings(Slice0(arr, MaxTags))))

\* slip: no cap at all
acsFiltrados_noCap(arr) ==
    FilterAllowed(MapTrim(FilterStrings(arr)))

\* acs.filter(string).map(trim).filter(allowed).slice(0, 3)
acsFiltrados(arr) ==
    Slice0(FilterAllowed(MapTrim(FilterStrings(arr))), MaxTags)

\* Array.isArray(parsed.acs) ? parsed.acs : []
AcsDe(parsed) == IF parsed.acs.t = "array" THEN parsed.acs.v ELSE <<>>

ErrorDeAc(id) ==
    [etiqueta |-> id,
     texto |-> IF id \in DOMAIN AC_MAP /\ AC_MAP[id].name # <<>>
               THEN AC_MAP[id].name ELSE id]

RECURSIVE MapErrores(_)
MapErrores(ids) ==
    IF ids = <<>> THEN <<>> ELSE <<ErrorDeAc(Head(ids))>> \o MapErrores(Tail(ids))

\* acsFiltrados.map((id) => ({etiqueta: id, texto: AC_MAP[id]?.name || id}))
ErroresDe(parsed) == MapErrores(acsFiltrados(AcsDe(parsed)))

ToLower(tok) ==
    CASE tok = "Timeout" -> "timeout"
      [] tok = "Socket" -> "socket"
      [] tok = "Request" -> "request"
      [] tok = "Clasificador" -> "clasificador"
      [] OTHER -> tok

\* msg.toLowerCase().includes("timeout") || e?.code === "ECONNABORTED"
isTimeout(e) ==
    (\E i \in DOMAIN e.message : ToLower(e.message[i]) = "timeout")
    \/ e.code = "ECONNABORTED"

\* classifierStatus = isTimeout ? "fail_timeout" : classifierStatus
CatchStatus(e, classifierStatus) ==
    IF isTimeout(e) THEN "fail_timeout" ELSE classifierStatus

TextoTimeout == <<"No", WS, "se", WS, "pudo", WS, "clasificar", WS, "(timeout)">>
TextoInvalido ==
    <<"No", WS, "se", WS, "pudo", WS, "clasificar", WS, "(formato", WS, "invalido)">>

\* slip: the sentinel is attached whatever the conversation
CatchErrores_always(e, numMensajes, errores) ==
    <<[etiqueta |-> AC_UNK,
       texto |-> IF isTimeout(e) THEN TextoTimeout ELSE TextoInvalido]>>

\* if (numMensajes > 0) errores = [{etiqueta: "AC_UNK", texto: ...}]
CatchErrores(e, numMensajes, errores) ==
    IF numMensajes > 0
    THEN <<[etiqueta |-> AC_UNK,
            texto |-> IF isTimeout(e) THEN TextoTimeout ELSE TextoInvalido]>>
    ELSE errores

\* ---------------------------------------------------------------- idle parts
\* the streak check is not part of the run
StreakOff ==
    /\ hostTZ = "UTC"
    /\ dates = <<>>
    /\ rachaDias = 0
    /\ pcS = "off"

\* GET /:userId is not part of the run
ProgOff ==
    /\ todosResultados = <<>>
    /\ now = 0
    /\ prog = [pc |-> "off"]

\* ---------------------------------------------------------------- POST /finalizar
\* the requests in flight; Solo is the one a sequential run uses
ReqIds == {1, 2}
Solo == {1}

ValidObjectIds == {"507f1f77bcf86cd799439011"}
IdValues == {"", "zz"} \cup ValidObjectIds
Bodies == [userId : IdValues, exerciseId : IdValues, interaccionId : IdValues]
NoBody == [userId |-> "", exerciseId |-> "", interaccionId |-> ""]

\* mongoose.Types.ObjectId.isValid
IsValidObjectId(id) == id \in ValidObjectIds

Mensajes == {[role |-> "user", content |-> "hola"]}

\* an Interaccion document; conversacion may not be an array
NoDoc == [isArray |-> FALSE, conversacion |-> <<>>, found |-> FALSE]
Interacciones ==
    {[isArray |-> FALSE, conversacion |-> <<>>, found |-> TRUE]}
    \cup {[isArray |-> TRUE, conversacion |-> c, found |-> TRUE] :
            c \in SeqsUpTo(Mensajes, MaxMsgs)}

\* Array.isArray(interaccion.conversacion) ? interaccion.conversacion : []
ConversacionDe(doc) == IF doc.isArray THEN doc.conversacion ELSE <<>>

LineaDe(m) == <<m.role, ":", WS, m.content>>

RECURSIVE MapLineas(_)
MapLineas(c) == IF c = <<>> THEN <<>> ELSE <<LineaDe(Head(c))>> \o MapLineas(Tail(c))

\* conversacion.map((m) => `${m.role}: ${m.content}`).join("\n") or the placeholder
conversacionTexto(conversacion) ==
    IF Len(conversacion) > 0 THEN MapLineas(conversacion)
    ELSE <<S("Conversacion vacia.")>>

promptBase(conversacion) == [strict |-> FALSE, texto |-> conversacionTexto(conversacion)]
promptRetry(conversacion) == [strict |-> TRUE, texto |-> conversacionTexto(conversacion)]

NoResponse == [status |-> 0, classifierStatus |-> "none", errores |-> <<>>]
Response(st) == [status |-> st, classifierStatus |-> "none", errores |-> <<>>]

\* (errores || []).map((x) => x.etiqueta)
RECURSIVE Etiquetas(_)
Etiquetas(es) == IF es = <<>> THEN <<>> ELSE <<Head(es).etiqueta>> \o Etiquetas(Tail(es))

\* reads counts the calls of Interaccion.findById, prompts the classifier calls
ReqInit ==
    [pc |-> "idle", body |-> NoBody, reads |-> 0, interaccion |-> NoDoc, numMensajes |-> 0,
     prompts |-> <<>>, outcomes |-> <<>>, caught |-> NoError,
     analisisIA |-> JNull, consejoIA |-> JNull, errores |-> <<>>,
     classifierStatus |-> "skipped", saves |-> 0, saved |-> "no", recordIdx |-> 0,
     res |-> NoResponse]

Returned(content) == [kind |-> "returned", content |-> content, error |-> NoError]
Threw(e) == [kind |-> "threw", content |-> [typ |-> "undefined", shape |-> "none", obj |-> NoObj], error |-> e]

\* lines 425-444: classifierStatus = "ok" and the Validate step
Validate(q, parsed) ==
    [q EXCEPT !.classifierStatus = "ok",
              !.analisisIA = TextoIA(parsed.analisis),
              !.consejoIA = TextoIA(parsed.consejo),
              !.errores = ErroresDe(parsed)]

\* lines 445-462: the catch block of the classification
Catch(q, e) ==
    [q EXCEPT !.caught = e,
              !.classifierStatus = CatchStatus(e, q.classifierStatus),
              !.errores = CatchErrores(e, q.numMensajes, q.errores)]

\* lines 464-475: the record is built and save() is called
IssueSave(q) == [q EXCEPT !.pc = "save", !.saves = q.saves + 1]

\* the record handed to save()
NuevoResultado(q) ==
    [usuario_id |-> q.body.userId, ejercicio_id |-> q.body.exerciseId,
     interaccion_id |-> q.body.interaccionId, numMensajes |-> q.numMensajes,
     analisisIA |-> q.analisisIA, consejoIA |-> q.consejoIA, errores |-> q.errores]

\* slip: the interaction is fetched before the identifiers are validated
Receive_readsFirst(r) ==
    /\ fin[r].pc = "idle"
    /\ \E b \in Bodies : fin' = [fin EXCEPT ![r] =
         IF b.userId = "" \/ b.exerciseId = "" \/ b.interaccionId = ""
         THEN [@ EXCEPT !.body = b, !.pc = "done", !.res = Response(400)]
         ELSE IF ~IsValidObjectId(b.userId) \/ ~IsValidObjectId(b.exerciseId)
                 \/ ~IsValidObjectId(b.interaccionId)
         THEN [@ EXCEPT !.body = b, !.reads = 1, !.pc = "done", !.res = Response(400)]
         ELSE [@ EXCEPT !.body = b, !.reads = 1, !.pc = "findById"]]
    /\ UNCHANGED <<resultados, varsVal, varsStreak, varsProg>>

\* the request arrives; lines 345-359
Receive(r) ==
    /\ fin[r].pc = "idle"
    /\ \E b \in Bodies : fin' = [fin EXCEPT ![r] =
         IF b.userId = "" \/ b.exerciseId = "" \/ b.interaccionId = ""
         THEN [@ EXCEPT !.body = b, !.pc = "done", !.res = Response(400)]
         ELSE IF ~IsValidObjectId(b.userId) \/ ~IsValidObjectId(b.exerciseId)
                 \/ ~IsValidObjectId(b.interaccionId)
         THEN [@ EXCEPT !.body = b, !.pc = "done", !.res = Response(400)]
         ELSE [@ EXCEPT !.body = b, !.reads = 1, !.pc = "findById"]]
    /\ UNCHANGED <<resultados, varsVal, varsStreak, varsProg>>

\* Interaccion.findById resolves; lines 359-412
FindByIdResolves(r) ==
    /\ fin[r].pc = "findById"
    /\ \E doc \in Interacciones \cup {NoDoc} : fin' = [fin EXCEPT ![r] =
         IF ~doc.found
         THEN [@ EXCEPT !.pc = "done", !.res = Response(404)]
         ELSE [@ EXCEPT !.interaccion = doc,
                        !.numMensajes = Len(ConversacionDe(doc)),
                        !.prompts = <<promptBase(ConversacionDe(doc))>>,
                        !.pc = "call1"]]
    /\ UNCHANGED <<resultados, varsVal, varsStreak, varsProg>>

\* Interaccion.findById rejects: the outer catch, line 487
FindByIdRejects(r) ==
    /\ fin[r].pc = "findById"
    /\ fin' = [fin EXCEPT ![r] = [@ EXCEPT !.pc = "done", !.res = Response(500)]]
    /\ UNCHANGED <<resultados, varsVal, varsStreak, varsProg>>

\* the first callClassifier resolves; lines 412-416, then 425-475
Call1Resolves(r, contents) ==
    /\ fin[r].pc = "call1"
    /\ \E content \in contents :
       LET q == [fin[r] EXCEPT !.outcomes = Append(@, Returned(content))]
           parsed == extractJsonObject(content)
       IN fin' = [fin EXCEPT ![r] =
            IF parsed = NULL
            THEN [q EXCEPT !.pc = "call2",
                           !.prompts = Append(@, promptRetry(ConversacionDe(q.interaccion)))]
            ELSE IssueSave(Validate(q, parsed))]
    /\ UNCHANGED <<resultados, varsVal, varsStreak, varsProg>>

\* slip: a first call that threw is retried with the strict prompt
Call1Rejects_retries(r) ==
    /\ fin[r].pc = "call1"
    /\ \E e \in Errors :
       LET q == [fin[r] EXCEPT !.outcomes = Append(@, Threw(e))]
       IN fin' = [fin EXCEPT ![r] =
            [q EXCEPT !.pc = "call2",
                      !.prompts = Append(@, promptRetry(ConversacionDe(q.interaccion)))]]
    /\ UNCHANGED <<resultados, varsVal, varsStreak, varsProg>>

\* slip: classifierStatus is a variable of the module, shared by the requests
Call1Rejects_shared(r) ==
    /\ fin[r].pc = "call1"
    /\ \E e \in Errors :
       LET q == [fin[r] EXCEPT !.outcomes = Append(@, Threw(e))]
           c == Catch(q, e)
       IN fin' = [x \in ReqIds |->
                    IF x = r THEN IssueSave(c)
                    ELSE [fin[x] EXCEPT !.classifierStatus = c.classifierStatus]]
    /\ UNCHANGED <<resultados, varsVal, varsStreak, varsProg>>

\* slip: the rejection escapes to the outer catch
Call1Rejects_propagates(r) ==
    /\ fin[r].pc = "call1"
    /\ \E e \in Errors :
       fin' = [fin EXCEPT ![r] =
            [@ EXCEPT !.outcomes = Append(@, Threw(e)), !.pc = "done",
                      !.res = Response(500)]]
    /\ UNCHANGED <<resultados, varsVal, varsStreak, varsProg>>

\* the first callClassifier rejects; lines 445-475
Call1Rejects(r) ==
    /\ fin[r].pc = "call1"
    /\ \E e \in Errors :
       LET q == [fin[r] EXCEPT !.outcomes = Append(@, Threw(e))]
       IN fin' = [fin EXCEPT ![r] = IssueSave(Catch(q, e))]
    /\ UNCHANGED <<resultados, varsVal, varsStreak, varsProg>>

\* slip: classifierStatus is set to "ok" before the extraction is tested
Call2Resolves_okEarly(r, contents) ==
    /\ fin[r].pc = "call2"
    /\ \E content \in contents :
       LET q == [fin[r] EXCEPT !.outcomes = Append(@, Returned(content))]
           parsed == extractJsonObject(content)
       IN fin' = [fin EXCEPT ![r] =
            IF parsed = NULL
            THEN IssueSave(Catch([q EXCEPT !.classifierStatus = "ok"], ErrorNoJson))
            ELSE IssueSave(Validate(q, parsed))]
    /\ UNCHANGED <<resultados, varsVal, varsStreak, varsProg>>

\* slip: an unparsable retry is retried again
Call2Resolves_retries(r, contents) ==
    /\ fin[r].pc = "call2"
    /\ \E content \in contents :
       LET q == [fin[r] EXCEPT !.outcomes = Append(@, Returned(content))]
           parsed == extractJsonObject(content)
       IN fin' = [fin EXCEPT ![r] =
            IF parsed = NULL
            THEN [q EXCEPT !.prompts = Append(@, promptRetry(ConversacionDe(q.interaccion)))]
            ELSE IssueSave(Validate(q, parsed))]
    /\ UNCHANGED <<resultados, varsVal, varsStreak, varsProg>>

\* the retry callClassifier resolves; lines 417-475
Call2Resolves(r, contents) ==
    /\ fin[r].pc = "call2"
    /\ \E content \in contents :
       LET q == [fin[r] EXCEPT !.outcomes = Append(@, Returned(content))]
           parsed == extractJsonObject(content)
       IN fin' = [fin EXCEPT ![r] =
            IF parsed = NULL
            THEN IssueSave(Catch([q EXCEPT !.classifierStatus = "fail_invalid_json"],
                                 ErrorNoJson))
            ELSE IssueSave(Validate(q, parsed))]
    /\ UNCHANGED <<resultados, varsVal, varsStreak, varsProg>>

\* the retry callClassifier rejects; lines 445-475
Call2Rejects(r) ==
    /\ fin[r].pc = "call2"
    /\ \E e \in Errors :
       LET q == [fin[r] EXCEPT !.outcomes = Append(@, Threw(e))]
       IN fin' = [fin EXCEPT ![r] = IssueSave(Catch(q, e))]
    /\ UNCHANGED <<resultados, varsVal, varsStreak, varsProg>>

\* nuevoResultado.save() resolves; lines 475-486
SaveResolves(r) ==
    /\ fin[r].pc = "save"
    /\ resultados' = Append(resultados, NuevoResultado(fin[r]))
    /\ fin' = [fin EXCEPT ![r] =
         [@ EXCEPT !.pc = "done", !.saved = "yes",
                   !.recordIdx = Len(resultados) + 1,
                   !.res = [status |-> 200,
                            classifierStatus |-> fin[r].classifierStatus,
                            errores |-> Etiquetas(fin[r].errores)]]]
    /\ UNCHANGED <<varsVal, varsStreak, varsProg>>

\* nuevoResultado.save() rejects: the outer catch, line 487
SaveRejects(r) ==
    /\ fin[r].pc = "save"
    /\ fin' = [fin EXCEPT ![r] =
         [@ EXCEPT !.pc = "done", !.saved = "failed", !.res = Response(500)]]
    /\ UNCHANGED <<resultados, varsVal, varsStreak, varsProg>>

InitFin ==
    /\ fin = [r \in ReqIds |-> ReqInit]
    /\ resultados = <<>>
    /\ acs = <<>>
    /\ aceptados = <<>>
    /\ pcV = "off"
    /\ StreakOff
    /\ ProgOff

NextFin ==
    \E r \in Solo :
        \/ Receive(r)
        \/ FindByIdResolves(r)
        \/ FindByIdRejects(r)
        \/ Call1Resolves(r, ContentsFin)
        \/ Call1Rejects(r)
        \/ Call2Resolves(r, ContentsFin)
        \/ Call2Rejects(r)
        \/ SaveResolves(r)
        \/ SaveRejects(r)

Spec == InitFin /\ [][NextFin]_vars

TypeOK ==
    \A r \in ReqIds : fin[r].pc \in {"idle", "findById", "call1", "call2", "save", "done"}

\* ---- several requests in flight: the handler's steps interleave at its awaits
\* what the classifier answers: a small choice of contents
PayloadsConc ==
    {[analisis |-> JStr(<<WS, "texto", WS>>), consejo |-> JStr(S("consejo")),
      acs |-> JArr(<<JStr(S("AC1")), JStr(<<WS, "AC2", WS>>)>>)],
     [analisis |-> JNum(7), consejo |-> JUndef, acs |-> JUndef]}

ContentsConc ==
    {[typ |-> "undefined", shape |-> "none", obj |-> NoObj],
     [typ |-> "string", shape |-> "prose", obj |-> NoObj]}
    \cup {[typ |-> "string", shape |-> "object", obj |-> p] : p \in PayloadsConc}

NextConc ==
    \E r \in ReqIds :
        \/ Receive(r)
        \/ FindByIdResolves(r)
        \/ FindByIdRejects(r)
        \/ Call1Resolves(r, ContentsConc)
        \/ Call1Rejects(r)
        \/ Call2Resolves(r, ContentsConc)
        \/ Call2Rejects(r)
        \/ SaveResolves(r)
        \/ SaveRejects(r)

SpecConc == InitFin /\ [][NextConc]_vars

\* ---------------------------------------------------------------- Validate on its own
EntriesVal ==
    {JStr(S("AC1")), JStr(S("AC2")), JStr(S("AC3")), JStr(S("AC4")),
     JStr(S("BOGUS")), JStr(<<WS, "AC1", WS>>), JNum(7)}

InitVal ==
    /\ fin = [r \in ReqIds |-> ReqInit]
    /\ resultados = <<>>
    /\ acs \in SeqsUpTo(EntriesVal, MaxAcs)
    /\ aceptados = <<>>
    /\ pcV = "in"
    /\ StreakOff
    /\ ProgOff

\* lines 434-439 applied to the array of a parsed response
ValidateAcs ==
    /\ pcV = "in"
    /\ aceptados' = acsFiltrados(acs)
    /\ pcV' = "out"
    /\ UNCHANGED <<fin, resultados, acs, varsStreak, varsProg>>

NextVal == ValidateAcs

SpecVal == InitVal /\ [][NextVal]_vars

\* ---------------------------------------------------------------- claims C1-C6
Statuses == {"ok", "fail_timeout", "fail_invalid_json", "skipped"}

\* the classification of request r failed: the catch block ran
Failed(r) == fin[r].caught # NoError

\* the conversation of request r has at least one message
HasMessages(r) ==
    fin[r].interaccion.isArray /\ Len(fin[r].interaccion.conversacion) > 0

\* C1: a request whose interaction was found calls save() exactly once as soon
\* as its classification is over, whatever the classifier did; once it is done
\* and the save succeeded it answered 200 with a classifierStatus, and it
\* answered anything else only because the save failed.
C1_SaveAlwaysReached ==
    \A r \in ReqIds :
        fin[r].interaccion.found =>
            /\ fin[r].pc \in {"call1", "call2"} => fin[r].saves = 0
            /\ fin[r].pc \in {"save", "done"} => fin[r].saves = 1
            /\ fin[r].pc = "done" /\ fin[r].saved = "yes" =>
                 /\ fin[r].res.status = 200
                 /\ fin[r].res.classifierStatus \in Statuses
                 /\ fin[r].recordIdx \in DOMAIN resultados
            /\ fin[r].pc = "done" /\ fin[r].res.status # 200 =>
                 fin[r].saved = "failed" /\ fin[r].res.status = 500

C1_Witness ==
    \E r \in ReqIds :
        /\ Failed(r) /\ fin[r].pc = "done" /\ fin[r].res.status = 200
        /\ fin[r].outcomes[1].kind = "threw"

\* C2: at most two classifier calls per request, at most one in flight; the
\* second carries the strict prompt and is issued only after the first call
\* returned a content whose extraction failed; after two outcomes no call follows.
C2_AtMostOneRetry ==
    \A r \in ReqIds :
        /\ Len(fin[r].prompts) <= 2
        /\ Len(fin[r].prompts) - Len(fin[r].outcomes) \in {0, 1}
        /\ fin[r].pc \in {"call1", "call2"} <=>
             Len(fin[r].prompts) = Len(fin[r].outcomes) + 1
        /\ Len(fin[r].prompts) >= 1 => ~fin[r].prompts[1].strict
        /\ Len(fin[r].prompts) = 2 =>
             /\ fin[r].prompts[2].strict
             /\ fin[r].outcomes[1].kind = "returned"
             /\ fin[r].outcomes[1].content.obj = NoObj

C2_Witness ==
    \E r \in ReqIds :
        /\ Len(fin[r].outcomes) = 2 /\ fin[r].pc = "done"
        /\ fin[r].outcomes[2].kind = "returned"
        /\ fin[r].outcomes[2].content.obj = NoObj

\* C3: when the failure escape was taken, the classifierStatus is fail_timeout
\* if the caught error indicates a timeout and fail_invalid_json otherwise.
C3_FailureStatus ==
    \A r \in ReqIds :
        Failed(r) /\ fin[r].pc = "done" /\ fin[r].res.status = 200 =>
            fin[r].res.classifierStatus =
                IF isTimeout(fin[r].caught) THEN "fail_timeout" ELSE "fail_invalid_json"

\* C4: the record saved after a classifier failure carries exactly the sentinel
\* tag AC_UNK, worded by the kind of failure, if the conversation has a
\* message, and no tag if it has none.
C4_SentinelTag ==
    \A r \in ReqIds :
        Failed(r) /\ fin[r].saved = "yes" =>
            LET tags == resultados[fin[r].recordIdx].errores
            IN IF HasMessages(r)
               THEN /\ Len(tags) = 1
                    /\ tags[1].etiqueta = AC_UNK
                    /\ tags[1].texto =
                         IF isTimeout(fin[r].caught) THEN TextoTimeout ELSE TextoInvalido
               ELSE tags = <<>>

C4_Witness ==
    \E r \in ReqIds :
        /\ Failed(r) /\ fin[r].saved = "yes" /\ ~HasMessages(r)
        /\ fin[r].interaccion.isArray

\* C5: every saved record has at most 3 error tags, each labelled with an id
\* of the closed vocabulary or with AC_UNK.
C5_TagsBounded ==
    \A i \in DOMAIN resultados :
        /\ Len(resultados[i].errores) <= 3
        /\ \A k \in DOMAIN resultados[i].errores :
             resultados[i].errores[k].etiqueta \in Range(ALLOWED_AC_IDS) \cup {AC_UNK}

C5_Witness ==
    \E r \in ReqIds :
        /\ fin[r].saved = "yes"
        /\ Len(resultados[fin[r].recordIdx].errores) = 3
        /\ Len(AcsDe(fin[r].outcomes[1].content.obj)) = 4
        /\ \E k \in 1..4 : AcsDe(fin[r].outcomes[1].content.obj)[k] = JStr(S("BOGUS"))

\* the k-th smallest element of a set of indices
Kth(I, k) == CHOOSE i \in I : Cardinality({j \in I : j <= i}) = k

Min(a, b) == IF a < b THEN a ELSE b

\* indices of the entries that are strings of the vocabulary as they stand
IdxVerbatim == {i \in DOMAIN acs : acs[i].t = "string" /\ acs[i].v \in Range(ALLOWED_AC_IDS)}

\* indices of the entries that are strings of the vocabulary once trimmed
IdxTrimmed ==
    {i \in DOMAIN acs : acs[i].t = "string" /\ Trim(acs[i].v) \in Range(ALLOWED_AC_IDS)}

\* C6 as stated: the accepted tags are the first three entries, in order, among
\* the entries that are strings belonging to the vocabulary.
C6_Original ==
    pcV = "out" =>
        /\ Len(aceptados) = Min(3, Cardinality(IdxVerbatim))
        /\ \A k \in DOMAIN aceptados : aceptados[k] = acs[Kth(IdxVerbatim, k)].v

\* C6 amended: the accepted tags are the trimmed values of the first three
\* entries, in order, among the entries that are strings whose trimmed value
\* belongs to the vocabulary; other entries take no slot of the cap.
C6_CapAfterFilter ==
    pcV = "out" =>
        /\ Len(aceptados) = Min(3, Cardinality(IdxTrimmed))
        /\ \A k \in DOMAIN aceptados : aceptados[k] = Trim(acs[Kth(IdxTrimmed, k)].v)

C6_Witness ==
    /\ pcV = "out"
    /\ acs = <<JStr(S("AC1")), JStr(S("BOGUS")), JStr(S("AC2")), JStr(S("AC3")),
               JStr(S("AC4"))>>
    /\ aceptados = <<S("AC1"), S("AC2"), S("AC3")>>

\* ---------------------------------------------------------------- time
\* An instant is a number of hours (UTC) since 2025-03-27T00:00Z, day 0 of the
\* model's calendar. Europe/Madrid is UTC+1 until 2025-03-30T01:00Z and UTC+2
\* from then on.
JDate(h) == [t |-> "date", v |-> <<h>>]
HoursPerDay == 24
Zones == {"UTC", "Europe/Madrid"}
DSTStart == HoursPerDay * 3 + 1

\* the "YYYY-MM-DD" of day n of the calendar, as <<year, month, day>>
DayKeyOf(n) == IF n <= 4 THEN <<2025, 3, 27 + n>> ELSE <<2025, 4, n - 4>>
DayIndexOf(key) == IF key[2] = 3 THEN key[3] - 27 ELSE key[3] + 4

StdOffset(zone) == IF zone = "Europe/Madrid" THEN 1 ELSE 0
OffsetAt(zone, h) ==
    IF zone = "Europe/Madrid" THEN (IF h < DSTStart THEN 1 ELSE 2) ELSE 0
ToLocal(zone, h) == h + OffsetAt(zone, h)

\* the instant a local wall-clock time of the zone denotes (as new Date(y, m, d, h)
\* resolves it: the earlier instant when ambiguous, the offset before the
\* transition when the local time is skipped)
LocalToUTC(zone, l) ==
    LET cands == {h \in (l - 2)..l : ToLocal(zone, h) = l}
    IN IF cands = {} THEN l - StdOffset(zone)
       ELSE CHOOSE h \in cands : \A g \in cands : h <= g

NoKey == <<>>

\* lines 13-29: the day of the instant in Europe/Madrid, or null
dayKeyMadrid(date) ==
    IF date.t = "null" THEN NoKey
    ELSE IF date.t # "date" THEN NoKey
    ELSE DayKeyOf(ToLocal("Europe/Madrid", date.v[1]) \div HoursPerDay)

\* string comparison of two "YYYY-MM-DD" keys
KeyLess(a, b) ==
    \/ a[1] < b[1]
    \/ a[1] = b[1] /\ a[2] < b[2]
    \/ a[1] = b[1] /\ a[2] = b[2] /\ a[3] < b[3]

\* lines 36-40: the Set of keys, in insertion order
RECURSIVE AddKeys(_, _)
AddKeys(ds, set) ==
    IF ds = <<>> THEN set
    ELSE LET k == dayKeyMadrid(Head(ds))
         IN AddKeys(Tail(ds),
                    IF k # NoKey /\ k \notin Range(set) THEN Append(set, k) ELSE set)

RECURSIVE InsertKey(_, _)
InsertKey(k, sorted) ==
    IF sorted = <<>> THEN <<k>>
    ELSE IF KeyLess(k, Head(sorted)) THEN <<k>> \o sorted
    ELSE <<Head(sorted)>> \o InsertKey(k, Tail(sorted))

\* Array.from(set).sort()
RECURSIVE SortKeys(_)
SortKeys(ks) == IF ks = <<>> THEN <<>> ELSE InsertKey(Head(ks), SortKeys(Tail(ks)))

\* new Date(key + "T00:00:00"): midnight of the day in the host's zone
LocalMidnight(zone, key) == LocalToUTC(zone, HoursPerDay * DayIndexOf(key))

\* lines 46-53: the walk backward from the last day
RECURSIVE Walk(_, _, _, _)
Walk(days, i, streak, zone) ==
    IF i > 1 /\ LocalMidnight(zone, days[i]) - LocalMidnight(zone, days[i - 1]) = HoursPerDay
    THEN Walk(days, i - 1, streak + 1, zone)
    ELSE streak

\* slip: the keys are walked in insertion order
computeStreak_noSort(ds, zone) ==
    LET set == AddKeys(ds, <<>>)
    IN IF Len(set) = 0 THEN 0 ELSE Walk(set, Len(set), 1, zone)

\* lines 35-56
computeStreak(ds, zone) ==
    LET set == AddKeys(ds, <<>>)
    IN IF Len(set) = 0 THEN 0
       ELSE LET days == SortKeys(set) IN Walk(days, Len(days), 1, zone)

\* ---------------------------------------------------------------- computeStreak on its own
StreakHours == {HoursPerDay * d + h : d \in 0..(NumDays - 1), h \in {10, 22, 23}}
DateValues == {JNull, JStr(S("garbage"))} \cup {JDate(h) : h \in StreakHours}

InitStreak ==
    /\ fin = [r \in ReqIds |-> ReqInit]
    /\ resultados = <<>>
    /\ acs = <<>>
    /\ aceptados = <<>>
    /\ pcV = "off"
    /\ hostTZ \in Zones
    /\ dates \in SeqsUpTo(DateValues, MaxDates)
    /\ rachaDias = 0
    /\ pcS = "in"
    /\ ProgOff

ComputeStreak ==
    /\ pcS = "in"
    /\ rachaDias' = computeStreak(dates, hostTZ)
    /\ pcS' = "out"
    /\ UNCHANGED <<fin, resultados, varsVal, hostTZ, dates, varsProg>>

NextStreak == ComputeStreak

SpecStreak == InitStreak /\ [][NextStreak]_vars

\* ---------------------------------------------------------------- claims C7-C8
\* the set of day-keys the input maps to
KeySet(ds) == {dayKeyMadrid(ds[i]) : i \in DOMAIN ds} \ {NoKey}

\* one instant per day of a set of days, in ascending order of day
RECURSIVE OnePerDay(_)
OnePerDay(idx) ==
    IF idx = {} THEN <<>>
    ELSE LET m == CHOOSE x \in idx : \A y \in idx : y <= x
         IN Append(OnePerDay(idx \ {m}), JDate(HoursPerDay * m + 10))

\* C7: the streak of an input equals the streak of the duplicate-free, ordered,
\* null-free input that maps to the same set of day-keys, so any two inputs
\* with the same set of day-keys have the same streak.
C7_DependsOnDaySet ==
    pcS = "out" =>
        LET canon == OnePerDay({DayIndexOf(k) : k \in KeySet(dates)})
        IN /\ KeySet(canon) = KeySet(dates)
           /\ rachaDias = computeStreak(canon, hostTZ)

C7_Witness ==
    /\ pcS = "out" /\ rachaDias = 2 /\ Len(dates) = 3
    /\ dates[1].t = "date" /\ dates[2] = JNull /\ dates[3].t = "date"
    /\ dates[3].v[1] < dates[1].v[1]

\* the length of the run of consecutive days ending at the latest day of a set
RunLength(idx) ==
    IF idx = {} THEN 0
    ELSE LET m == CHOOSE x \in idx : \A y \in idx : y <= x
         IN CHOOSE n \in 1..(m + 1) :
              /\ \A j \in 0..(n - 1) : (m - j) \in idx
              /\ (m - n) \notin idx

\* C8: the streak is 0 without a valid day and otherwise the length of the run
\* of consecutive calendar days that ends at the latest day of the data.
C8_StreakIsRunLength ==
    pcS = "out" => rachaDias = RunLength({DayIndexOf(k) : k \in KeySet(dates)})

\* ---------------------------------------------------------------- GET /:userId
\* r.ejercicio_id after populate: null, a raw id, or the exercise document
EjNull == [kind |-> "null", id |-> <<>>, titulo |-> <<>>, concepto |-> <<>>]
EjRaw(id) == [kind |-> "raw", id |-> id, titulo |-> <<>>, concepto |-> <<>>]
EjDoc(id, titulo, concepto) ==
    [kind |-> "doc", id |-> id, titulo |-> titulo, concepto |-> concepto]

\* the Ejercicio collection
Ejercicios ==
    {EjDoc(S("e1"), S("Circuito 1"), S("Ley de Ohm")),
     EjDoc(S("e2"), <<>>, S("Ley de Ohm")),
     EjDoc(S("e3"), S("Circuito 3"), S("Kirchhoff")),
     EjDoc(S("e4"), S("Circuito 4"), <<>>)}

\* r.ejercicio_id?.concepto
ConceptoDe(r) == IF r.ejercicio_id.kind = "doc" THEN r.ejercicio_id.concepto ELSE <<>>

\* lines 121-125: the id of the exercise of a record, or null
EjercicioIdDe(r) == IF r.ejercicio_id.kind = "null" THEN <<>> ELSE r.ejercicio_id.id

\* lines 91-92: the sum of numMensajes and the number of records
RECURSIVE SumaMensajes(_)
SumaMensajes(rs) ==
    IF rs = <<>> THEN 0 ELSE Head(rs).numMensajes + SumaMensajes(Tail(rs))

interaccionesMedias(rs) == [total |-> SumaMensajes(rs), count |-> Len(rs)]

\* lines 95-103: the per-concept totals, in insertion order of the concepts
RECURSIVE Eficiencia(_, _)
Eficiencia(rs, acc) ==
    IF rs = <<>> THEN acc
    ELSE LET c == ConceptoDe(Head(rs))
             n == Head(rs).numMensajes
         IN IF c = <<>> THEN Eficiencia(Tail(rs), acc)
            ELSE IF \E i \in DOMAIN acc : acc[i].concepto = c
            THEN Eficiencia(Tail(rs),
                   [i \in DOMAIN acc |->
                      IF acc[i].concepto = c
                      THEN [acc[i] EXCEPT !.total = @ + n, !.count = @ + 1]
                      ELSE acc[i]])
            ELSE Eficiencia(Tail(rs),
                   Append(acc, [concepto |-> c, total |-> n, count |-> 1]))

\* lines 105-108: interacciones is total / count, kept as the fraction
eficienciaPorConcepto(rs) == Eficiencia(rs, <<>>)

\* lines 111-113: setDate(getDate() - 7) on the host's local calendar
haceUnaSemana(zone, ahora) ==
    LocalToUTC(zone, ToLocal(zone, ahora) - 7 * HoursPerDay)

\* slip: the lower bound is exclusive
EnSemana_exclusive(r, zone, ahora) ==
    /\ r.fecha.t = "date"
    /\ r.fecha.v[1] > haceUnaSemana(zone, ahora)

\* line 115: r.fecha && new Date(r.fecha) >= haceUnaSemana
EnSemana(r, zone, ahora) ==
    /\ r.fecha.t = "date"
    /\ r.fecha.v[1] >= haceUnaSemana(zone, ahora)

resultadosSemana(rs, zone, ahora) ==
    {rs[i] : i \in {j \in DOMAIN rs : EnSemana(rs[j], zone, ahora)}}

\* line 117
conceptosSemana(rs, zone, ahora) ==
    {ConceptoDe(r) : r \in resultadosSemana(rs, zone, ahora)} \ {<<>>}

\* lines 119-128
ejerciciosUnicosSemana(rs, zone, ahora) ==
    {EjercicioIdDe(r) : r \in resultadosSemana(rs, zone, ahora)} \ {<<>>}

\* r.fecha || r.createdAt || r.updatedAt
FechaDe(r) ==
    IF r.fecha.t # "null" THEN r.fecha
    ELSE IF r.createdAt.t # "null" THEN r.createdAt
    ELSE r.updatedAt

RECURSIVE Fechas(_)
Fechas(rs) == IF rs = <<>> THEN <<>> ELSE <<FechaDe(Head(rs))>> \o Fechas(Tail(rs))

\* lines 131-137
resumenSemanal(rs, zone, ahora) ==
    [ejerciciosCompletados |-> Cardinality(ejerciciosUnicosSemana(rs, zone, ahora)),
     conceptosDistintos |-> Cardinality(conceptosSemana(rs, zone, ahora)),
     rachaDias |-> computeStreak(Fechas(rs), zone)]

\* x || fallback, for a stored text
TextoO(x, fallback) == IF x.t = "string" /\ x.v # <<>> THEN x.v ELSE fallback

\* lines 140-145
ultimaSesion(rs) ==
    [tituloEjercicio |->
        IF rs[1].ejercicio_id.kind = "doc" /\ rs[1].ejercicio_id.titulo # <<>>
        THEN rs[1].ejercicio_id.titulo ELSE S("Ejercicio Reciente"),
     analisis |-> TextoO(rs[1].analisisIA, S("Analisis no disponible.")),
     consejo |-> TextoO(rs[1].consejoIA, S("Sigue practicando."))]

\* lines 150-160: one error tag is counted
ContarError(mapa, e) ==
    IF e.etiqueta = <<>> THEN mapa
    ELSE IF \E i \in DOMAIN mapa : mapa[i].etiqueta = e.etiqueta
    THEN [i \in DOMAIN mapa |->
            IF mapa[i].etiqueta = e.etiqueta
            THEN [mapa[i] EXCEPT !.veces = @ + 1] ELSE mapa[i]]
    ELSE Append(mapa,
           [etiqueta |-> e.etiqueta,
            texto |-> IF e.texto # <<>> THEN e.texto ELSE e.etiqueta,
            veces |-> 1])

RECURSIVE ContarErrores(_, _)
ContarErrores(mapa, es) ==
    IF es = <<>> THEN mapa ELSE ContarErrores(ContarError(mapa, Head(es)), Tail(es))

\* lines 148-161: mapaErrores, its entries in insertion order
RECURSIVE mapaErrores(_, _)
mapaErrores(rs, mapa) ==
    IF rs = <<>> THEN mapa
    ELSE mapaErrores(Tail(rs), ContarErrores(mapa, Head(rs).errores))

\* an entry goes behind every entry that does not count less
RECURSIVE InsertarPorVeces(_, _)
InsertarPorVeces(sorted, x) ==
    IF sorted = <<>> THEN <<x>>
    ELSE IF Head(sorted).veces >= x.veces
    THEN <<Head(sorted)>> \o InsertarPorVeces(Tail(sorted), x)
    ELSE <<x>> \o sorted

\* .sort((a, b) => b.veces - a.veces), a stable sort
RECURSIVE OrdenarPorVeces(_, _)
OrdenarPorVeces(sorted, rest) ==
    IF rest = <<>> THEN sorted
    ELSE OrdenarPorVeces(InsertarPorVeces(sorted, Head(rest)), Tail(rest))

MaxTop == 3

\* slip: the first three entries are taken before sorting
erroresFrecuentes_sliceFirst(rs) ==
    OrdenarPorVeces(<<>>, Slice0(mapaErrores(rs, <<>>), MaxTop))

\* slip: only the most frequent entry is kept
erroresFrecuentes_topOne(rs) ==
    Slice0(OrdenarPorVeces(<<>>, mapaErrores(rs, <<>>)), 1)

\* line 163
erroresFrecuentes(rs) ==
    Slice0(OrdenarPorVeces(<<>>, mapaErrores(rs, <<>>)), MaxTop)

\* slip: the sentinel counts as a real error
hasRealErrors_anyLabel(frecuentes) ==
    \E i \in DOMAIN frecuentes : frecuentes[i].etiqueta # <<>>

\* line 175
hasRealErrors(frecuentes) ==
    \E i \in DOMAIN frecuentes :
        frecuentes[i].etiqueta # <<>> /\ frecuentes[i].etiqueta # AC_UNK

\* slip: an equal mean also moves an entry in front
MasInteracciones_orEqual(b, a) == b.total * a.count >= a.total * b.count

\* b.interacciones - a.interacciones > 0, on the fractions
MasInteracciones(b, a) == b.total * a.count > a.total * b.count

RECURSIVE InsertarPorMedia(_, _)
InsertarPorMedia(sorted, x) ==
    IF sorted = <<>> THEN <<x>>
    ELSE IF MasInteracciones(x, Head(sorted)) THEN <<x>> \o sorted
    ELSE <<Head(sorted)>> \o InsertarPorMedia(Tail(sorted), x)

RECURSIVE OrdenarPorMedia(_, _)
OrdenarPorMedia(sorted, rest) ==
    IF rest = <<>> THEN sorted
    ELSE OrdenarPorMedia(InsertarPorMedia(sorted, Head(rest)), Tail(rest))

\* line 198: [...eficienciaPorConcepto].sort(...)[0]
peor(eficiencia) == OrdenarPorMedia(<<>>, eficiencia)[1]

RecomendacionVacia ==
    [titulo |-> <<>>,
     motivo |-> S("Haz un ejercicio para que el tutor pueda recomendarte una practica personalizada."),
     ejercicioId |-> JNull, concepto |-> <<>>]

\* lines 71-87: the welcome payload
Bienvenida ==
    [interaccionesMedias |-> [total |-> 0, count |-> 1],
     eficienciaPorConcepto |-> <<>>,
     resumenSemanal |-> [ejerciciosCompletados |-> 0, conceptosDistintos |-> 0, rachaDias |-> 0],
     ultimaSesion |-> [tituloEjercicio |-> S("Bienvenido!"),
                       analisis |-> S("Aun no has completado ningun ejercicio."),
                       consejo |-> S("Empieza con uno para ver aqui tu progreso.")],
     erroresFrecuentes |-> <<>>,
     recomendacion |-> RecomendacionVacia]

\* lines 90-173: the aggregates, with the recommendation still empty
Agregados(rs, zone, ahora) ==
    [interaccionesMedias |-> interaccionesMedias(rs),
     eficienciaPorConcepto |-> eficienciaPorConcepto(rs),
     resumenSemanal |-> resumenSemanal(rs, zone, ahora),
     ultimaSesion |-> ultimaSesion(rs),
     erroresFrecuentes |-> erroresFrecuentes(rs),
     recomendacion |-> RecomendacionVacia]

\* lines 181-195 and 202-216: the recommendation once findOne has answered
Recomendar(rama, conceptoObjetivo, ej) ==
    IF ej.kind = "doc"
    THEN [titulo |-> IF ej.titulo # <<>> THEN ej.titulo ELSE S("Ejercicio recomendado"),
          motivo |-> IF rama = "errores"
                     THEN S("Recomendacion basada en tus errores recientes.")
                     ELSE S("Te recomiendo reforzar este concepto segun tu actividad reciente."),
          ejercicioId |-> JStr(ej.id),
          concepto |-> IF ej.concepto # <<>> THEN ej.concepto ELSE conceptoObjetivo]
    ELSE [titulo |-> S("Recomendacion"),
          motivo |-> IF rama = "errores"
                     THEN S("Revisa el concepto de tu ultima sesion y prueba un ejercicio similar.")
                     ELSE <<"Refuerza el concepto: ">> \o conceptoObjetivo \o <<".">>,
          ejercicioId |-> JNull,
          concepto |-> conceptoObjetivo]

NoBodyP == [none |-> TRUE]
\* rama is the branch of lines 177-217 that was entered, lookup what became of
\* its Ejercicio.findOne: "none" (not made), "pending", "found", "null", "rejected"
ProgIdle ==
    [pc |-> "idle", rama |-> "none", conceptoObjetivo |-> <<>>, lookup |-> "none",
     parcial |-> NoBodyP, res |-> [status |-> 0, body |-> NoBodyP]]

\* the request arrives; lines 60-66
ProgRequest ==
    /\ prog.pc = "idle"
    /\ \E userId \in IdValues :
         prog' = IF ~IsValidObjectId(userId)
                 THEN [prog EXCEPT !.pc = "done", !.res = [status |-> 400, body |-> NoBodyP]]
                 ELSE [prog EXCEPT !.pc = "find"]
    /\ UNCHANGED <<fin, resultados, varsVal, varsStreak, todosResultados, now>>

\* Resultado.find rejects: the catch, lines 227-230
ProgFindRejects ==
    /\ prog.pc = "find"
    /\ prog' = [prog EXCEPT !.pc = "done", !.res = [status |-> 500, body |-> NoBodyP]]
    /\ UNCHANGED <<fin, resultados, varsVal, varsStreak, todosResultados, now>>

\* Resultado.find resolves with the learner's records; lines 66-201
ProgFindResolves(historias) ==
    /\ prog.pc = "find"
    /\ \E rs \in historias :
         /\ todosResultados' = rs
         /\ prog' =
              IF Len(rs) = 0
              THEN [prog EXCEPT !.pc = "done", !.res = [status |-> 200, body |-> Bienvenida]]
              ELSE LET body == Agregados(rs, hostTZ, now)
                   IN IF hasRealErrors(body.erroresFrecuentes)
                      THEN IF ConceptoDe(rs[1]) # <<>>
                           THEN [prog EXCEPT !.pc = "findOne", !.rama = "errores",
                                             !.conceptoObjetivo = ConceptoDe(rs[1]),
                                             !.lookup = "pending",
                                             !.parcial = body]
                           ELSE [prog EXCEPT !.pc = "done", !.rama = "errores",
                                             !.res = [status |-> 200, body |-> body]]
                      ELSE IF Len(body.eficienciaPorConcepto) > 0
                      THEN [prog EXCEPT !.pc = "findOne", !.rama = "peor",
                                        !.conceptoObjetivo =
                                           peor(body.eficienciaPorConcepto).concepto,
                                        !.lookup = "pending",
                                        !.parcial = body]
                      ELSE [prog EXCEPT !.pc = "done",
                                        !.res = [status |-> 200, body |-> body]]
    /\ UNCHANGED <<fin, resultados, varsVal, varsStreak, now>>

\* slip: an exercise that is not found ends in the catch
ProgFindOneResolves_throws ==
    /\ prog.pc = "findOne"
    /\ \E ej \in {EjNull} \cup {e \in Ejercicios : e.concepto = prog.conceptoObjetivo} :
         prog' = IF ej.kind = "doc"
                 THEN [prog EXCEPT
                         !.pc = "done", !.lookup = "found",
                         !.res = [status |-> 200,
                                  body |-> [prog.parcial EXCEPT
                                              !.recomendacion =
                                                 Recomendar(prog.rama, prog.conceptoObjetivo, ej)]]]
                 ELSE [prog EXCEPT !.pc = "done", !.lookup = "null",
                                   !.res = [status |-> 500, body |-> NoBodyP]]
    /\ UNCHANGED <<fin, resultados, varsVal, varsStreak, todosResultados, now>>

\* Ejercicio.findOne resolves with an exercise of the concept, or with null
ProgFindOneResolves ==
    /\ prog.pc = "findOne"
    /\ \E ej \in {EjNull} \cup {e \in Ejercicios : e.concepto = prog.conceptoObjetivo} :
         prog' = [prog EXCEPT
                    !.pc = "done",
                    !.lookup = IF ej.kind = "doc" THEN "found" ELSE "null",
                    !.res = [status |-> 200,
                             body |-> [prog.parcial EXCEPT
                                         !.recomendacion =
                                            Recomendar(prog.rama, prog.conceptoObjetivo, ej)]]]
    /\ UNCHANGED <<fin, resultados, varsVal, varsStreak, todosResultados, now>>

\* Ejercicio.findOne rejects: the catch, lines 227-230
ProgFindOneRejects ==
    /\ prog.pc = "findOne"
    /\ prog' = [prog EXCEPT !.pc = "done", !.lookup = "rejected",
                            !.res = [status |-> 500, body |-> NoBodyP]]
    /\ UNCHANGED <<fin, resultados, varsVal, varsStreak, todosResultados, now>>

\* ---- the histories GET /:userId is run on
NowHour == HoursPerDay * 8 + 12

RecBase ==
    [fecha |-> JDate(NowHour - 4), createdAt |-> JNull, updatedAt |-> JNull,
     ejercicio_id |-> EjDoc(S("e1"), S("Circuito 1"), S("Ley de Ohm")),
     numMensajes |-> 2, analisisIA |-> JNull, consejoIA |-> JNull, errores |-> <<>>]

\* .sort({fecha: -1}): latest first, records without fecha last
FechaRank(r) == IF r.fecha.t = "date" THEN r.fecha.v[1] ELSE 0 - 1
SortedByFecha(rs) ==
    \A i \in DOMAIN rs : \A j \in DOMAIN rs : i < j => FechaRank(rs[i]) >= FechaRank(rs[j])

\* records around the lower bound of the weekly window
FechasSemana ==
    {JNull, JDate(NowHour - 4)}
    \cup {JDate(NowHour - 7 * HoursPerDay + d) : d \in {0 - 1, 0, 1, 2}}

EjRefsSemana ==
    {EjNull, EjRaw(S("e9")),
     EjDoc(S("e1"), S("Circuito 1"), S("Ley de Ohm")),
     EjDoc(S("e3"), S("Circuito 3"), S("Kirchhoff"))}

RecsSemana ==
    {[RecBase EXCEPT !.fecha = f, !.createdAt = f, !.updatedAt = f, !.ejercicio_id = e] :
        f \in FechasSemana, e \in EjRefsSemana}

HistSemana == {rs \in SeqsUpTo(RecsSemana, MaxRecs) : SortedByFecha(rs)}

\* records with up to two tags of the vocabulary, with the sentinel of a failed
\* classification, or with a tag without label; their exercise no longer exists
TagsVocab == {ErrorDeAc(ALLOWED_AC_IDS[i]) : i \in DOMAIN ALLOWED_AC_IDS}

ErroresPosibles ==
    SeqsUpTo(TagsVocab, MaxTags - 1)
    \cup {<<[etiqueta |-> AC_UNK, texto |-> TextoInvalido]>>,
          <<[etiqueta |-> <<>>, texto |-> S("sin etiqueta")]>>}

HistErrores ==
    SeqsUpTo({[RecBase EXCEPT !.errores = es, !.ejercicio_id = EjNull] :
                 es \in ErroresPosibles},
             MaxRecsErr)

\* records of exercises of two concepts, or of a deleted exercise, that took
\* one to three messages
MensajesPosibles == {1, 2, 3}

EjRefsConcepto ==
    {EjNull,
     EjDoc(S("e1"), S("Circuito 1"), S("Ley de Ohm")),
     EjDoc(S("e3"), S("Circuito 3"), S("Kirchhoff"))}

HistConceptos ==
    SeqsUpTo({[RecBase EXCEPT !.ejercicio_id = e, !.numMensajes = n] :
                 e \in EjRefsConcepto, n \in MensajesPosibles},
             MaxRecs)

\* records as POST /finalizar saves them: without tag, with a tag of the
\* vocabulary, or with the sentinel; their exercise may have been deleted
HistRamas ==
    SeqsUpTo({[RecBase EXCEPT !.ejercicio_id = e, !.errores = es] :
                 e \in EjRefsConcepto,
                 es \in {<<>>, <<ErrorDeAc(S("AC1"))>>,
                         <<[etiqueta |-> AC_UNK, texto |-> TextoInvalido]>>}},
             MaxRecs)

\* what the collection may hold for the learner
HistoriasDe(zone) ==
    HistSemana
    \cup (IF zone = "UTC" THEN HistErrores \cup HistConceptos \cup HistRamas ELSE {})

InitProg ==
    /\ fin = [r \in ReqIds |-> ReqInit]
    /\ resultados = <<>>
    /\ acs = <<>>
    /\ aceptados = <<>>
    /\ pcV = "off"
    /\ dates = <<>>
    /\ rachaDias = 0
    /\ pcS = "off"
    /\ now = NowHour
    /\ hostTZ \in Zones
    /\ todosResultados = <<>>
    /\ prog = ProgIdle

NextProg ==
    \/ ProgRequest
    \/ ProgFindRejects
    \/ ProgFindResolves(HistoriasDe(hostTZ))
    \/ ProgFindOneResolves
    \/ ProgFindOneRejects

SpecProg == InitProg /\ [][NextProg]_vars

\* ---------------------------------------------------------------- claims C9-C10
\* GET /:userId answered 200 on a non-empty history
ProgDone == prog.pc = "done" /\ prog.res.status = 200 /\ Len(todosResultados) > 0

\* "now minus 7 days": the instant at which the host's wall clock showed the
\* time it shows now, seven calendar days earlier
Umbral ==
    CHOOSE u \in (now - 7 * HoursPerDay - 2)..(now - 7 * HoursPerDay + 2) :
        ToLocal(hostTZ, u) = ToLocal(hostTZ, now) - 7 * HoursPerDay

Registros == {todosResultados[i] : i \in DOMAIN todosResultados}

EjerciciosDe(rs) == {r.ejercicio_id.id : r \in {x \in rs : x.ejercicio_id.kind # "null"}}
ConceptosDe(rs) ==
    {r.ejercicio_id.concepto :
        r \in {x \in rs : x.ejercicio_id.kind = "doc" /\ x.ejercicio_id.concepto # <<>>}}

\* C9 as stated: the weekly counts are taken over the records whose timestamp
\* is strictly later than now minus 7 days.
C9_Original ==
    ProgDone =>
        LET u == Umbral
            semana == {r \in Registros : r.fecha.t = "date" /\ r.fecha.v[1] > u}
        IN /\ prog.res.body.resumenSemanal.ejerciciosCompletados =
                Cardinality(EjerciciosDe(semana))
           /\ prog.res.body.resumenSemanal.conceptosDistintos =
                Cardinality(ConceptosDe(semana))

\* C9 amended: the weekly counts are taken over the records that have a
\* timestamp at or after now minus 7 days (inclusive lower bound).
C9_WeeklyInclusive ==
    ProgDone =>
        LET u == Umbral
            semana == {r \in Registros : r.fecha.t = "date" /\ r.fecha.v[1] >= u}
        IN /\ prog.res.body.resumenSemanal.ejerciciosCompletados =
                Cardinality(EjerciciosDe(semana))
           /\ prog.res.body.resumenSemanal.conceptosDistintos =
                Cardinality(ConceptosDe(semana))

C9_Witness ==
    /\ ProgDone
    /\ hostTZ = "Europe/Madrid"
    /\ Len(todosResultados) = 3
    /\ todosResultados[1].fecha = JDate(Umbral)
    /\ todosResultados[2].fecha = JDate(Umbral - 1)
    /\ todosResultados[3].fecha = JNull
    /\ \A i \in 1..3 : todosResultados[i].ejercicio_id.kind = "doc"
    /\ prog.res.body.resumenSemanal.ejerciciosCompletados = 1
    /\ prog.res.body.resumenSemanal.conceptosDistintos = 1

\* the labels of all error tags of all records, in scanning order
RECURSIVE Aplanar(_)
Aplanar(rs) == IF rs = <<>> THEN <<>> ELSE Etiquetas(Head(rs).errores) \o Aplanar(Tail(rs))

Veces(plan, l) == Cardinality({i \in DOMAIN plan : plan[i] = l})
Primera(plan, l) == CHOOSE i \in DOMAIN plan : plan[i] = l /\ \A j \in 1..(i - 1) : plan[j] # l

\* C10: frequentErrors has at most 3 entries (as many as there are labels, up
\* to 3), each with the number of occurrences of its label over all tags of all
\* records, in non-increasing order of count, equal counts in order of first
\* encounter, and no omitted label counts more than an included one.
C10_TopThree ==
    ProgDone =>
        LET F == prog.res.body.erroresFrecuentes
            plan == Aplanar(todosResultados)
            vistas == Range(plan) \ {<<>>}
        IN /\ Len(F) <= 3
           /\ Len(F) = Min(3, Cardinality(vistas))
           /\ \A i \in DOMAIN F :
                /\ F[i].etiqueta \in vistas
                /\ F[i].veces = Veces(plan, F[i].etiqueta)
           /\ \A i \in DOMAIN F : \A j \in DOMAIN F :
                i < j =>
                   /\ F[i].etiqueta # F[j].etiqueta
                   /\ F[i].veces >= F[j].veces
                   /\ F[i].veces = F[j].veces =>
                        Primera(plan, F[i].etiqueta) < Primera(plan, F[j].etiqueta)
           /\ \A l \in vistas :
                (\A i \in DOMAIN F : F[i].etiqueta # l) =>
                   \A i \in DOMAIN F : Veces(plan, l) <= F[i].veces

C10_Witness ==
    /\ ProgDone
    /\ Cardinality(Range(Aplanar(todosResultados)) \ {<<>>}) = 4
    /\ Len(prog.res.body.erroresFrecuentes) = 3
    /\ prog.res.body.erroresFrecuentes[1].veces = 2
    /\ prog.res.body.erroresFrecuentes[2].veces = 2
    /\ prog.res.body.erroresFrecuentes[3].veces = 1
    /\ Aplanar(todosResultados)[1] = prog.res.body.erroresFrecuentes[3].etiqueta

\* ---------------------------------------------------------------- claims C11-C12, C14-C15, C20
\* Resultado.find resolved with a non-empty history: the branch is chosen
ProgBranched == prog.pc \in {"findOne", "done"} /\ Len(todosResultados) > 0

\* the aggregates the handler computed, before or after the lookup
CuerpoProg == IF prog.parcial # NoBodyP THEN prog.parcial ELSE prog.res.body

\* a list of frequent errors holds a label other than the sentinel
HayEtiquetaReal(F) == \E i \in DOMAIN F : F[i].etiqueta # AC_UNK

\* C11: the branch "based on recent errors" is entered if and only if the top
\* frequent errors hold a label other than AC_UNK, and its lookup targets the
\* concept of the most recent record; with no such label and a non-empty
\* per-concept aggregation the worst-concept branch is entered and looks an
\* exercise up; with neither, no branch is entered.
C11_BranchSelection ==
    ProgBranched =>
        LET F == CuerpoProg.erroresFrecuentes
            E == CuerpoProg.eficienciaPorConcepto
        IN /\ prog.rama = "errores" <=> HayEtiquetaReal(F)
           /\ prog.rama = "errores" /\ prog.lookup # "none" =>
                prog.conceptoObjetivo = ConceptoDe(todosResultados[1])
           /\ ~HayEtiquetaReal(F) /\ E # <<>> =>
                prog.rama = "peor" /\ prog.lookup # "none"
           /\ ~HayEtiquetaReal(F) /\ E = <<>> => prog.rama = "none"

C11_Witness ==
    /\ ProgDone
    /\ Len(prog.res.body.erroresFrecuentes) = 1
    /\ prog.res.body.erroresFrecuentes[1].etiqueta = AC_UNK
    /\ prog.res.body.erroresFrecuentes[1].veces = 3
    /\ prog.res.body.eficienciaPorConcepto # <<>>
    /\ prog.rama = "peor"
    /\ prog.res.body.recomendacion.motivo =
         S("Te recomiendo reforzar este concepto segun tu actividad reciente.")

\* C12: a 200 response on a non-empty history carries the empty recommendation
\* only if no frequent error has a label other than AC_UNK and the per-concept
\* aggregation is empty; if there is such an error, or the aggregation is not
\* empty, the concept of the recommendation is not empty.
C12_EmptyOnlyWithoutData ==
    ProgDone =>
        LET F == prog.res.body.erroresFrecuentes
            E == prog.res.body.eficienciaPorConcepto
            rec == prog.res.body.recomendacion
        IN /\ rec = RecomendacionVacia => ~HayEtiquetaReal(F) /\ E = <<>>
           /\ HayEtiquetaReal(F) \/ E # <<>> => rec.concepto # <<>>

\* C14: when the lookup of either branch finds no exercise, the request is
\* answered 200 with a recommendation without exercise id that names the
\* target concept.
C14_NotFoundIsNormal ==
    prog.pc = "done" /\ prog.lookup = "null" =>
        /\ prog.rama \in {"errores", "peor"}
        /\ prog.res.status = 200
        /\ prog.res.body.recomendacion.ejercicioId = JNull
        /\ prog.res.body.recomendacion.concepto = prog.conceptoObjetivo
        /\ prog.conceptoObjetivo # <<>>

C14_Witness ==
    /\ prog.pc = "done" /\ prog.lookup = "null" /\ prog.rama = "errores"
    /\ prog.res.status = 200
    /\ prog.res.body.recomendacion.concepto = S("Kirchhoff")
    /\ prog.res.body.recomendacion.ejercicioId = JNull

\* the records of concept c, their messages, and the first of them
IndicesDe(c) == {i \in DOMAIN todosResultados : ConceptoDe(todosResultados[i]) = c}
RECURSIVE SumaDe(_)
SumaDe(I) ==
    IF I = {} THEN 0
    ELSE LET i == CHOOSE j \in I : TRUE
         IN todosResultados[i].numMensajes + SumaDe(I \ {i})
PrimeroDe(c) == CHOOSE i \in IndicesDe(c) : \A j \in IndicesDe(c) : i <= j

C20_TruncationHidesNoError ==
    ProgBranched =>
        LET plan == Aplanar(todosResultados)
            real == \E i \in DOMAIN plan : plan[i] # <<>> /\ plan[i] # AC_UNK
        IN /\ HayEtiquetaReal(CuerpoProg.erroresFrecuentes) <=> real
           /\ prog.rama = "errores" <=> real

C20_Witness ==
    /\ ProgDone /\ prog.rama = "errores"
    /\ Cardinality(Range(Aplanar(todosResultados))) = 5
    /\ prog.res.body.erroresFrecuentes[1].etiqueta = AC_UNK
    /\ Len(prog.res.body.erroresFrecuentes) = 3

\* ---------------------------------------------------------------- claim C16
\* C16: whatever the host's time zone, when the two latest day keys of the
\* dates are adjacent calendar days the streak is extended over them.
C16_HostIndependent ==
    pcS = "out" =>
        LET idx == {DayIndexOf(k) : k \in KeySet(dates)}
        IN \A m \in idx :
             (\A n \in idx : n <= m) /\ (m - 1) \in idx => rachaDias >= 2

\* ---------------------------------------------------------------- claims C13, C17-C19
\* the body of request r lacks a field or holds a malformed identifier
BadBody(r) ==
    \E f \in {"userId", "exerciseId", "interaccionId"} :
        ~IsValidObjectId(fin[r].body[f])

\* C13: a request whose body lacks a field or holds a malformed identifier is
\* answered 400 without any call of findById; a request answered 400 or 404
\* made no classifier call and saved no record.
C13_RejectedNoSideEffects ==
    \A r \in ReqIds :
        /\ fin[r].pc # "idle" /\ BadBody(r) =>
             fin[r].pc = "done" /\ fin[r].res.status = 400 /\ fin[r].reads = 0
        /\ fin[r].pc = "done" /\ fin[r].res.status \in {400, 404} =>
             /\ fin[r].res.status = 400 => fin[r].reads = 0
             /\ fin[r].prompts = <<>> /\ fin[r].outcomes = <<>>
             /\ fin[r].saves = 0 /\ fin[r].saved = "no"
             /\ resultados = <<>>

C13_Witness ==
    \E r \in ReqIds :
        /\ fin[r].pc = "done" /\ fin[r].res.status = 400
        /\ fin[r].body.userId \in ValidObjectIds
        /\ fin[r].body.exerciseId \in ValidObjectIds
        /\ fin[r].body.interaccionId = "zz"

\* what request q saves and answers when nothing but its own body, its own
\* conversation and the outcomes of its own classifier calls is looked at
Propio(q) ==
    LET q0 == [ReqInit EXCEPT !.body = q.body, !.interaccion = q.interaccion,
                              !.numMensajes = Len(ConversacionDe(q.interaccion))]
        o == q.outcomes
        q1 == IF o[1].kind = "threw" THEN Catch(q0, o[1].error)
              ELSE IF extractJsonObject(o[1].content) # NULL
              THEN Validate(q0, extractJsonObject(o[1].content))
              ELSE IF o[2].kind = "threw" THEN Catch(q0, o[2].error)
              ELSE IF extractJsonObject(o[2].content) # NULL
              THEN Validate(q0, extractJsonObject(o[2].content))
              ELSE Catch([q0 EXCEPT !.classifierStatus = "fail_invalid_json"], ErrorNoJson)
    IN [record |-> NuevoResultado(q1), classifierStatus |-> q1.classifierStatus]

\* C17: with several requests interleaved at their awaits, every request that
\* saved has exactly one record of its own in the collection, the collection
\* holds nothing else, and that record and the classifierStatus answered are
\* those its own conversation and its own classifier outcomes give.
C17_RequestsIsolated ==
    /\ Len(resultados) = Cardinality({r \in ReqIds : fin[r].saved = "yes"})
    /\ \A r \in ReqIds :
         fin[r].saved = "yes" =>
            /\ fin[r].saves = 1
            /\ fin[r].recordIdx \in DOMAIN resultados
            /\ \A x \in ReqIds \ {r} : fin[x].recordIdx # fin[r].recordIdx
            /\ resultados[fin[r].recordIdx] = Propio(fin[r]).record
            /\ fin[r].res.classifierStatus = Propio(fin[r]).classifierStatus

C17_Witness ==
    /\ \A r \in ReqIds : fin[r].saved = "yes" /\ fin[r].pc = "done"
    /\ fin[1].recordIdx = 2 /\ fin[2].recordIdx = 1
    /\ fin[1].res.classifierStatus = "ok"
    /\ fin[2].res.classifierStatus = "fail_timeout"
    /\ Len(fin[1].outcomes) = 2
    /\ fin[1].numMensajes # fin[2].numMensajes

\* C18: after a first classifier call that threw, no second call is made: the
\* request has one prompt and one outcome, the catch ran on that error and
\* save() was called.
C18_ThrownFirstCallNotRetried ==
    \A r \in ReqIds :
        Len(fin[r].outcomes) >= 1 /\ fin[r].outcomes[1].kind = "threw" =>
            /\ Len(fin[r].outcomes) = 1
            /\ Len(fin[r].prompts) = 1
            /\ fin[r].pc \in {"save", "done"}
            /\ fin[r].caught = fin[r].outcomes[1].error
            /\ fin[r].saves = 1

C18_Witness ==
    \E r \in ReqIds :
        /\ fin[r].pc = "done" /\ fin[r].res.status = 200
        /\ fin[r].outcomes[1].kind = "threw"
        /\ fin[r].outcomes[1].error.code = "ECONNREFUSED"

\* C19: in a 200 response of POST /finalizar, a classifierStatus other than
\* "ok" goes with a record without analysis and advice whose tags are none or
\* exactly AC_UNK; "ok" goes with a record whose tags are all ids of the
\* vocabulary and with no run of the catch; the labels answered are the labels
\* of the record.
C19_StatusCoherent ==
    \A r \in ReqIds :
        fin[r].pc = "done" /\ fin[r].res.status = 200 =>
            LET rec == resultados[fin[r].recordIdx]
            IN /\ fin[r].res.classifierStatus # "ok" =>
                    /\ rec.analisisIA = JNull
                    /\ rec.consejoIA = JNull
                    /\ Etiquetas(rec.errores) \in {<<>>, <<AC_UNK>>}
               /\ fin[r].res.classifierStatus = "ok" =>
                    /\ ~Failed(r)
                    /\ \A k \in DOMAIN rec.errores :
                         rec.errores[k].etiqueta \in Range(ALLOWED_AC_IDS)
               /\ fin[r].res.errores = Etiquetas(rec.errores)

C19_Witness ==
    \E r \in ReqIds :
        /\ fin[r].pc = "done" /\ fin[r].res.status = 200
        /\ fin[r].res.classifierStatus = "ok"
        /\ fin[r].res.errores = <<S("AC1"), S("AC2")>>
        /\ resultados[fin[r].recordIdx].analisisIA = JStr(S("texto"))
        /\ Len(fin[r].outcomes) = 2

====
